---- MODULE Spec2Model ----
(***************************************************************************)
(* Model of the retry decorator of src/retry.py: construction of a policy  *)
(* (retry.__init__), decoration of a function (retry.__call__) and one     *)
(* call of the wrapper it returns (sync_wrapper or async_wrapper).         *)
(*                                                                         *)
(* Durations are whole time units.  A Python value whose type matters is   *)
(* a record [type, val]; an exception class is named by a string.          *)
(***************************************************************************)
EXTENDS Integers, Sequences, FiniteSets, TLC

(* ---------------------------- bounds ---------------------------------- *)
\* largest max_retries argument tried
MaxRetriesArg == 3
\* largest delay / max_delay argument tried
MaxDuration == 1
\* invocations of the function after which a call is no longer followed
MaxInvocations == 3

(* ------------------------ Python values ------------------------------- *)
NoneValue == [type |-> "NoneType", val |-> 0]
PyInt(n) == [type |-> "int", val |-> n]
PyFloat(n) == [type |-> "float", val |-> n]
PyStr == [type |-> "str", val |-> 0]

\* isinstance(v, int) and isinstance(v, float)
isinstance_int(v) == v.type = "int"
isinstance_float(v) == v.type = "float"

(* ---------------------- exception classes ----------------------------- *)
\* the classes of the model and the base class of each
ExceptionClasses ==
  {"BaseException", "Exception", "CancelledError", "ValueError", "TypeError",
   "LookupError", "KeyError", "MaxRetryExceededError"}

Classes == ExceptionClasses \cup {"object", "int"}

BaseOf(c) ==
  CASE c = "BaseException" -> "object"
    [] c = "Exception" -> "BaseException"
    [] c = "CancelledError" -> "BaseException"
    [] c = "ValueError" -> "Exception"
    [] c = "TypeError" -> "Exception"
    [] c = "LookupError" -> "Exception"
    [] c = "KeyError" -> "LookupError"
    [] c = "MaxRetryExceededError" -> "Exception"
    [] c = "int" -> "object"
    [] OTHER -> "object"

RECURSIVE issubclass(_, _)
issubclass(c, base) ==
  IF c = base THEN TRUE
  ELSE IF c = "object" THEN FALSE
  ELSE issubclass(BaseOf(c), base)

(* ------------------- arguments of retry(...) -------------------------- *)
\* max_retries: an int (negative, zero, positive) or a value of another type
MaxRetriesArgs == {PyInt(n) : n \in -2..MaxRetriesArg} \cup {PyStr}

\* delay: a float (negative or not) or a value of another type
DelayArgs == {PyFloat(n) : n \in -1..MaxDuration} \cup {PyInt(1)}

\* jitter: a float (negative, zero, positive) or a value of another type
JitterArgs == {PyFloat(-1), PyFloat(0), PyFloat(1), PyInt(1)}

\* max_delay: None or a float; the constructor does not look at it
MaxDelayArgs == {NoneValue} \cup {PyFloat(n) : n \in -1..MaxDuration}

\* exceptions: a class, a tuple, another iterable (list, set) or a value
\* that is neither; an item is a class or "instance" (an exception object)
ExceptionsArgs ==
  { [type |-> "type", items |-> {"Exception"}],
    [type |-> "type", items |-> {"BaseException"}],
    [type |-> "type", items |-> {"int"}],
    [type |-> "tuple", items |-> {"ValueError"}],
    [type |-> "tuple", items |-> {"LookupError"}],
    [type |-> "tuple", items |-> {"ValueError", "instance"}],
    [type |-> "list", items |-> {"ValueError"}],
    [type |-> "int", items |-> {}] }

\* backoff: None, a value that is not callable, or a callable.
\*   "one_arg"        lambda delay: delay
\*   "linear"         lambda delay, attempt: delay * attempt
\*   "method_one_arg" bound method  def m(self, delay): return delay
BackoffArgs == {"None", "str", "one_arg", "linear", "method_one_arg"}

callable(b) == b \in {"one_arg", "linear", "method_one_arg"}

\* len(getfullargspec(b).args): the positional parameter names, which
\* for a bound method include the bound first parameter
getfullargspec_args_len(b) ==
  CASE b = "one_arg" -> 1
    [] b = "linear" -> 2
    [] b = "method_one_arg" -> 2
    [] OTHER -> 0

\* the number of positional arguments a call b(...) accepts
positional_params(b) ==
  CASE b = "one_arg" -> 1
    [] b = "linear" -> 2
    [] b = "method_one_arg" -> 1
    [] b = "default" -> 2
    [] OTHER -> 0

RetryArgs ==
  [max_retries : MaxRetriesArgs, delay : DelayArgs,
   max_delay : MaxDelayArgs, jitter : JitterArgs,
   exceptions : ExceptionsArgs, backoff : BackoffArgs]

(* ------------------------ retry.__init__ ------------------------------ *)
Raise(t) == [ok |-> FALSE, error |-> t]

\* the check of the `exceptions` argument: "ok" or the error raised
check_exceptions(e) ==
  IF e.type = "type"
  THEN IF \E c \in e.items : ~issubclass(c, "BaseException")
       THEN "TypeError" ELSE "ok"
  ELSE IF e.type \in {"tuple", "list"}
  THEN \* issubclass(x, BaseException) raises TypeError when x is no class
       IF \E x \in e.items : x \notin Classes THEN "TypeError"
       ELSE IF ~(\A c \in e.items : issubclass(c, "BaseException"))
       THEN "TypeError" ELSE "ok"
  ELSE "TypeError"

\* the check of the `backoff` argument
check_backoff(b) ==
  IF callable(b)
  THEN IF getfullargspec_args_len(b) # 2 THEN "ValueError" ELSE "ok"
  ELSE IF b # "None" THEN "TypeError" ELSE "ok"

stored_attributes_default_linear(a) ==
  [max_retries |-> a.max_retries.val,
   delay |-> a.delay.val,
   max_delay |-> a.max_delay,
   jitter |-> a.jitter.val,
   exceptions |-> IF a.exceptions.type = "type"
                  THEN [type |-> "tuple", items |-> a.exceptions.items]
                  ELSE a.exceptions,
   backoff |-> IF a.backoff = "None" THEN "linear" ELSE a.backoff]

\* the attributes __init__ stores; a single class becomes a 1-tuple and
\* a missing backoff becomes  lambda delay, attempt: delay
stored_attributes(a) ==
  [max_retries |-> a.max_retries.val,
   delay |-> a.delay.val,
   max_delay |-> a.max_delay,
   jitter |-> a.jitter.val,
   exceptions |-> IF a.exceptions.type = "type"
                  THEN [type |-> "tuple", items |-> a.exceptions.items]
                  ELSE a.exceptions,
   backoff |-> IF a.backoff = "None" THEN "default" ELSE a.backoff]

retry_init(a) ==
  IF ~isinstance_int(a.max_retries) THEN Raise("TypeError")
  ELSE IF a.max_retries.val = 0 THEN Raise("ValueError")
  ELSE IF ~isinstance_float(a.delay) THEN Raise("TypeError")
  ELSE IF a.delay.val < 0 THEN Raise("ValueError")
  ELSE IF ~isinstance_float(a.jitter) THEN Raise("TypeError")
  ELSE IF a.jitter.val < 0 THEN Raise("ValueError")
  ELSE IF check_exceptions(a.exceptions) # "ok"
  THEN Raise(check_exceptions(a.exceptions))
  ELSE IF check_backoff(a.backoff) # "ok"
  THEN Raise(check_backoff(a.backoff))
  ELSE [ok |-> TRUE, error |-> "none"]

(* --------------------- retry.__call__: the wrappers ------------------- *)
\* return async_wrapper if iscoroutinefunction(func) else sync_wrapper
Funcs == {"function", "coroutine function", "not callable"}

retry_call(func) ==
  IF func = "not callable" THEN "TypeError"
  ELSE IF func = "coroutine function" THEN "async_wrapper"
  ELSE "sync_wrapper"

\* max_retries = self.max_retries if self.max_retries > 0 else float("inf")
local_max_retries(self) ==
  IF self.max_retries > 0
  THEN [finite |-> TRUE, n |-> self.max_retries]
  ELSE [finite |-> FALSE, n |-> 0]

\* attempts <= max_retries  and  attempts == max_retries
attempts_le(attempts, max_retries) ==
  ~max_retries.finite \/ attempts <= max_retries.n

attempts_eq(attempts, max_retries) ==
  max_retries.finite /\ attempts = max_retries.n

\* what the function does when it is invoked: it returns, or it raises an
\* exception of one of these classes; a coroutine can also be cancelled
\* while it runs, which raises CancelledError inside it
FuncOutcomes(wrapper) ==
  {"return", "ValueError", "KeyError"}
    \cup (IF wrapper = "async_wrapper" THEN {"CancelledError"} ELSE {})

\* `except self.exceptions`: Python matches against a class or a tuple of
\* classes and raises TypeError when the operand is anything else
except_clause(exceptions, raised) ==
  IF exceptions.type # "tuple" THEN "TypeError"
  ELSE IF \E c \in exceptions.items : issubclass(raised, c) THEN "caught"
  ELSE "propagate"

call_backoff_previous_attempt(backoff, delay, attempts) ==
  CASE backoff = "default" -> delay
    [] backoff = "linear" -> delay * (attempts - 1)
    [] OTHER -> delay

\* the value of self.backoff(self.delay, attempts)
call_backoff(backoff, delay, attempts) ==
  CASE backoff = "default" -> delay
    [] backoff = "linear" -> delay * attempts
    [] OTHER -> delay

min(a, b) == IF a <= b THEN a ELSE b

compute_delay_zero_based(self, attempts, u) ==
  LET delay == call_backoff(self.backoff, self.delay, attempts - 1) + u
  IN  IF self.max_delay.type # "NoneType"
      THEN min(delay, self.max_delay.val)
      ELSE delay

compute_delay_cap_before_jitter(self, attempts, u) ==
  LET delay == call_backoff(self.backoff, self.delay, attempts)
  IN  IF self.max_delay.type # "NoneType"
      THEN min(delay, self.max_delay.val) + u
      ELSE delay + u

\* delay = self.backoff(self.delay, attempts); delay += uniform(-j, j);
\* if self.max_delay is not None: delay = min(delay, self.max_delay)
\* (u is the value uniform() draws)
compute_delay(self, attempts, u) ==
  LET delay == call_backoff(self.backoff, self.delay, attempts) + u
  IN  IF self.max_delay.type # "NoneType"
      THEN min(delay, self.max_delay.val)
      ELSE delay

\* time.sleep raises ValueError on a negative length; asyncio.sleep with a
\* length <= 0 yields once and returns
sleep_raises(wrapper, delay) == wrapper = "sync_wrapper" /\ delay < 0

(* the state of one call of the wrapper *)
Running == [status |-> "running", value |-> 0, exc |-> "none",
            origin |-> 0, cause |-> 0, msg |-> 0]

\* return of the value the n-th invocation produced (0: the implicit None
\* of a function that falls off its end)
Returned(n) == [status |-> "returned", value |-> n, exc |-> "none",
                origin |-> 0, cause |-> 0, msg |-> 0]

\* an exception of class t leaves the wrapper; origin is the invocation
\* that raised it (0: not raised by the function), cause the invocation
\* whose exception is its __cause__ (0: none), msg the number its message
\* states (0: none)
Raised(t, origin, cause) ==
  [status |-> "raised", value |-> 0, exc |-> t,
   origin |-> origin, cause |-> cause, msg |-> 0]

\* raise MaxRetryExceededError("Maximum number of retries ({}) exceeded."
\*     .format(self.max_retries)) from exc
max_retry_exceeded_unchained(self, exc) ==
  [Raised("MaxRetryExceededError", 0, 0) EXCEPT !.msg = self.max_retries]

max_retry_exceeded(self, exc) ==
  [Raised("MaxRetryExceededError", 0, exc) EXCEPT !.msg = self.max_retries]

NoCall ==
  [pc |-> "idle", attempts |-> 0, max_retries |-> [finite |-> FALSE, n |-> 0],
   invocations |-> 0, outcomes |-> <<>>, backoffs |-> <<>>, sleeps |-> <<>>,
   result |-> Running]

\* attempts = 0; max_retries = ...
wrapper_enter(self) ==
  [NoCall EXCEPT !.pc = "loop", !.max_retries = local_max_retries(self)]

Finish(c, r) == [c EXCEPT !.pc = "done", !.result = r]

except_block_sleep_before_test(self, wrapper, c, exc, u) ==
  LET attempts == c.attempts + 1
      c1 == [c EXCEPT !.attempts = attempts]
      called == [c1 EXCEPT !.backoffs = Append(@, attempts)]
      delay == compute_delay(self, attempts, u)
      c2 == [called EXCEPT !.sleeps =
                Append(@, [attempts |-> attempts, delay |-> delay])]
  IN  IF positional_params(self.backoff) # 2
      THEN Finish(called, Raised("TypeError", 0, 0))
      ELSE IF sleep_raises(wrapper, delay)
      THEN Finish(c2, Raised("ValueError", 0, 0))
      ELSE IF attempts_eq(attempts, c.max_retries)
      THEN Finish(c2, max_retry_exceeded(self, exc))
      ELSE [c2 EXCEPT !.pc = "sleep"]

except_block_backoff_error_ignored(self, wrapper, c, exc, u) ==
  LET attempts == c.attempts + 1
      c1 == [c EXCEPT !.attempts = attempts]
      called == [c1 EXCEPT !.backoffs = Append(@, attempts)]
      delay == compute_delay(self, attempts, u)
      c2 == [called EXCEPT !.sleeps =
                Append(@, [attempts |-> attempts, delay |-> delay])]
  IN  IF attempts_eq(attempts, c.max_retries)
      THEN Finish(c1, max_retry_exceeded(self, exc))
      ELSE IF sleep_raises(wrapper, delay)
      THEN Finish(c2, Raised("ValueError", 0, 0))
      ELSE [c2 EXCEPT !.pc = "sleep"]

\* the except block: attempts += 1, the exhaustion test, the delay and the
\* call of sleep; exc is the invocation whose exception was caught, and
\* backoffs lists the attempt numbers of the calls self.backoff(...) made
except_block(self, wrapper, c, exc, u) ==
  LET attempts == c.attempts + 1
      c1 == [c EXCEPT !.attempts = attempts]
      called == [c1 EXCEPT !.backoffs = Append(@, attempts)]
      delay == compute_delay(self, attempts, u)
      c2 == [called EXCEPT !.sleeps =
                Append(@, [attempts |-> attempts, delay |-> delay])]
  IN  IF attempts_eq(attempts, c.max_retries)
      THEN Finish(c1, max_retry_exceeded(self, exc))
      ELSE IF positional_params(self.backoff) # 2
      THEN Finish(called, Raised("TypeError", 0, 0))
      ELSE IF sleep_raises(wrapper, delay)
      THEN Finish(c2, Raised("ValueError", 0, 0))
      ELSE [c2 EXCEPT !.pc = "sleep"]

\* one pass of  while attempts <= max_retries: try: return func(...)
\* except self.exceptions as exc: ...   up to the call of sleep
wrapper_loop(self, wrapper, c, outcome, u) ==
  IF ~attempts_le(c.attempts, c.max_retries)
  THEN Finish(c, Returned(0))
  ELSE
    LET n == c.invocations + 1
        c1 == [c EXCEPT !.invocations = n,
                        !.outcomes = Append(@, outcome)]
        clause == except_clause(self.exceptions, outcome)
    IN  IF outcome = "return" THEN Finish(c1, Returned(n))
        ELSE IF clause = "TypeError"
        THEN Finish(c1, Raised("TypeError", 0, 0))
        ELSE IF clause = "propagate"
        THEN Finish(c1, Raised(outcome, n, 0))
        ELSE except_block(self, wrapper, c1, n, u)

sleep_cancelled_as_failure(self, c) ==
  IF except_clause(self.exceptions, "CancelledError") = "caught"
  THEN [c EXCEPT !.pc = "loop", !.attempts = @ + 1]
  ELSE Finish(c, Raised("CancelledError", 0, 0))

\* await async_sleep(delay) raises CancelledError: the await stands in the
\* except block, outside the try, so no except clause sees the error
sleep_cancelled(self, c) == Finish(c, Raised("CancelledError", 0, 0))

attributes_after_except_delay_stored(self, attempts, u) ==
  [self EXCEPT !.delay = compute_delay(self, attempts, u) + 1]

\* the attributes of self after a pass through the except block: the
\* block assigns the locals attempts and delay and no attribute
attributes_after_except(self, attempts, u) == self

\* the calls of one wrapper that are in progress at the same time
CallIds == {1, 2}

NoCalls == [i \in CallIds |-> NoCall]

\* chunk_iterable(...) before it is called
PyBool(b) == [type |-> "bool", val |-> b]

NoChunk ==
  [pc |-> "idle", type |-> "none", n |-> PyInt(0), preserve |-> PyBool(TRUE),
   input |-> <<>>, i |-> 0, dequed |-> <<>>, chunks |-> <<>>,
   error |-> "none"]

\* integer_to_roman(...) before it is called
NoRoman ==
  [pc |-> "idle", integer |-> PyInt(0), roman |-> <<>>, error |-> "none",
   valid |-> FALSE, back |-> 0]

\* the attributes of an instance of a subclass of FrozenClass: _initd, the
\* slot of FrozenClass, and x and y, which the subclass keeps; an attribute
\* is set or not, and True is 1
AttrNames == {"_initd", "x", "y"}

Unset == [set |-> FALSE, val |-> 0]

Attr(v) == [set |-> TRUE, val |-> v]

NoOp == [op |-> "none", attr |-> "none", error |-> "none"]

\* the instance before __init__
NoFrozen ==
  [pc |-> "idle", attrs |-> [a \in AttrNames |-> Unset],
   initial |-> [a \in AttrNames |-> Unset], last |-> NoOp]

\* the names looked up and the .env files of the process; a value is a
\* positive number and 0 stands for None (no value)
EnvNames == {"A", "B"}

EnvFileNames == {".env", "other.env"}

NoFile == [exists |-> FALSE, lines |-> <<>>]

\* the process before EnvDefault is used
NoEnv ==
  [pc |-> "idle", use_dotenv |-> FALSE,
   environ |-> [n \in EnvNames |-> 0],
   files |-> [f \in EnvFileNames |-> NoFile],
   dotenv_loaded |-> FALSE,
   dotenv_values |-> [n \in EnvNames |-> 0],
   instances |-> <<>>,
   last |-> [instance |-> 0, value |-> 0]]

(* ----------------------------- state ---------------------------------- *)
VARIABLES
  args,         \* the arguments given to retry(...)
  constructed,  \* "no", "ok", or the error retry.__init__ raised
  policy,       \* the attributes of the retry object
  wrapper,      \* "none", the wrapper retry.__call__ returned, or its error
  call,         \* the call of the wrapper
  calls,        \* the concurrent calls of the wrapper
  chunk,        \* a call of chunk_iterable and its generator
  roman,        \* a conversion to a roman numeral and back
  frozen,       \* an instance of a subclass of FrozenClass
  env           \* the process that uses EnvDefault

vars ==
  <<args, constructed, policy, wrapper, call, calls, chunk, roman, frozen,
    env>>

NoArgs ==
  [max_retries |-> NoneValue, delay |-> NoneValue, max_delay |-> NoneValue,
   jitter |-> NoneValue, exceptions |-> [type |-> "none", items |-> {}],
   backoff |-> "None"]

NoAttributes ==
  [max_retries |-> 0, delay |-> 0, max_delay |-> NoneValue, jitter |-> 0,
   exceptions |-> [type |-> "none", items |-> {}], backoff |-> "none"]

Init ==
  /\ args = NoArgs
  /\ constructed = "no"
  /\ policy = NoAttributes
  /\ wrapper = "none"
  /\ call = NoCall
  /\ calls = NoCalls
  /\ frozen = NoFrozen
  /\ env = NoEnv
  /\ chunk = NoChunk
  /\ roman = NoRoman

\* retry(max_retries=..., delay=..., ...)
Construct ==
  /\ constructed = "no"
  /\ \E a \in RetryArgs :
       /\ args' = a
       /\ constructed' = IF retry_init(a).ok THEN "ok" ELSE retry_init(a).error
       /\ policy' = IF retry_init(a).ok THEN stored_attributes(a)
                    ELSE NoAttributes
  /\ UNCHANGED <<wrapper, call, calls, chunk, roman,
               frozen, env>>

\* retry(...)(func)
Decorate ==
  /\ constructed = "ok"
  /\ wrapper = "none"
  /\ \E func \in Funcs : wrapper' = retry_call(func)
  /\ UNCHANGED <<args, constructed, policy, call, calls, chunk, roman,
               frozen, env>>

\* the wrapper is called
Enter ==
  /\ wrapper \in {"sync_wrapper", "async_wrapper"}
  /\ call.pc = "idle"
  /\ call' = wrapper_enter(policy)
  /\ UNCHANGED <<args, constructed, policy, wrapper, calls, chunk, roman,
               frozen, env>>

\* one pass of the loop
Loop ==
  /\ call.pc = "loop"
  /\ call.invocations < MaxInvocations
  /\ \E outcome \in FuncOutcomes(wrapper), u \in (0 - policy.jitter)..policy.jitter :
       /\ call' = wrapper_loop(policy, wrapper, call, outcome, u)
       /\ policy' = IF call'.attempts > call.attempts
                    THEN attributes_after_except(policy, call'.attempts, u)
                    ELSE policy
  /\ UNCHANGED <<args, constructed, wrapper, calls, chunk, roman,
               frozen, env>>

\* sleep returns
Wake ==
  /\ call.pc = "sleep"
  /\ call' = [call EXCEPT !.pc = "loop"]
  /\ UNCHANGED <<args, constructed, policy, wrapper, calls, chunk, roman,
               frozen, env>>

\* the task is cancelled while it awaits asyncio.sleep: CancelledError is
\* raised inside the except block and leaves the wrapper
CancelSleep ==
  /\ call.pc = "sleep"
  /\ wrapper = "async_wrapper"
  /\ call' = sleep_cancelled(policy, call)
  /\ UNCHANGED <<args, constructed, policy, wrapper, calls, chunk, roman,
               frozen, env>>

Next == Construct \/ Decorate \/ Enter \/ Loop \/ Wake \/ CancelSleep

Spec == Init /\ [][Next]_vars

(* ------------- concurrent calls of one wrapper ------------------------ *)
\* the policies of the concurrent calls: accepted by __init__, without
\* delay, jitter and max_delay
ConcArgs ==
  {a \in RetryArgs :
     /\ retry_init(a).ok
     /\ a.delay = PyFloat(0)
     /\ a.jitter = PyFloat(0)
     /\ a.max_delay = NoneValue
     /\ a.backoff = "None"}

Max(S) == CHOOSE x \in S : \A y \in S : y <= x

frame_shared_attempts(cs, i) ==
  [cs[i] EXCEPT !.attempts = Max({cs[j].attempts : j \in CallIds})]

\* the frame of call i: attempts, max_retries and delay are locals of the
\* wrapper, so each call works on its own
frame(cs, i) == cs[i]

InitConc ==
  /\ args \in ConcArgs
  /\ constructed = "ok"
  /\ policy = stored_attributes(args)
  /\ wrapper \in {"sync_wrapper", "async_wrapper"}
  /\ call = NoCall
  /\ calls = NoCalls
  /\ frozen = NoFrozen
  /\ env = NoEnv
  /\ chunk = NoChunk
  /\ roman = NoRoman

holds_event_loop_time_sleep(w, c) == w = "async_wrapper" /\ c.pc = "sleep"

\* the call keeps the event loop to itself while it waits: never, because
\* async_wrapper awaits asyncio.sleep, which suspends the coroutine (and a
\* call of sync_wrapper sleeps in the thread that called it)
holds_event_loop(w, c) == FALSE

\* call i can take a step: no other call holds the event loop
can_run(cs, w, i) == \A j \in CallIds \ {i} : ~holds_event_loop(w, cs[j])

\* call i of the wrapper begins, the first or one after an ended call
EnterCall(i) ==
  /\ calls[i].pc \in {"idle", "done"}
  /\ can_run(calls, wrapper, i)
  /\ calls' = [calls EXCEPT ![i] = wrapper_enter(policy)]
  /\ UNCHANGED <<args, constructed, policy, wrapper, call, chunk, roman,
               frozen, env>>

ConcEnter == \E i \in CallIds : EnterCall(i)

\* call i makes a pass of its loop
LoopCall(i) ==
  /\ calls[i].pc = "loop"
  /\ can_run(calls, wrapper, i)
  /\ calls[i].invocations < MaxInvocations
  /\ \E outcome \in FuncOutcomes(wrapper),
        u \in (0 - policy.jitter)..policy.jitter :
       calls' = [calls EXCEPT ![i] =
                   wrapper_loop(policy, wrapper, frame(calls, i),
                                outcome, u)]
  /\ UNCHANGED <<args, constructed, policy, wrapper, call, chunk, roman,
               frozen, env>>

ConcLoop == \E i \in CallIds : LoopCall(i)

\* the sleep of call i returns
WakeCall(i) ==
  /\ calls[i].pc = "sleep"
  /\ can_run(calls, wrapper, i)
  /\ calls' = [calls EXCEPT ![i] = [calls[i] EXCEPT !.pc = "loop"]]
  /\ UNCHANGED <<args, constructed, policy, wrapper, call, chunk, roman,
               frozen, env>>

ConcWake == \E i \in CallIds : WakeCall(i)

\* call i is cancelled while it awaits asyncio.sleep
CancelSleepCall(i) ==
  /\ wrapper = "async_wrapper"
  /\ calls[i].pc = "sleep"
  /\ calls' = [calls EXCEPT ![i] = sleep_cancelled(policy, calls[i])]
  /\ UNCHANGED <<args, constructed, policy, wrapper, call, chunk, roman,
               frozen, env>>

ConcCancelSleep == \E i \in CallIds : CancelSleepCall(i)

NextConc == ConcEnter \/ ConcLoop \/ ConcWake \/ ConcCancelSleep

SpecConc == InitConc /\ [][NextConc]_vars

(* ------------------------- chunk_iterable ----------------------------- *)
MaxLen == 3
MaxChunkSize == 3

\* the elements of the iterables (the characters of the strings)
Items == {1, 2}

\* the values given as `iterable`: lists, tuples and strings up to MaxLen
\* elements, and an int, which is not iterable
IterableArgs ==
  {[type |-> t, items |-> xs] :
     t \in {"list", "tuple", "str"},
     xs \in UNION {[1..k -> Items] : k \in 0..MaxLen}}
  \cup {[type |-> "int", items |-> <<>>]}

ChunkSizeArgs == {PyInt(n) : n \in (0 - 1)..MaxChunkSize} \cup {PyStr}

PreserveArgs == {PyBool(TRUE), PyBool(FALSE), PyStr}

\* the validation of the arguments: "none" or the error raised
chunk_validate(iterable, n, preserve_iterable_type) ==
  IF iterable.type \notin {"list", "tuple", "str"} THEN "TypeError"
  ELSE IF ~isinstance_int(n) THEN "TypeError"
  ELSE IF preserve_iterable_type.type # "bool" THEN "TypeError"
  ELSE IF n.val <= 0 THEN "ValueError"
  ELSE "none"

RECURSIVE popleft_padded(_, _)
popleft_padded(dequed, n) ==
  IF n = 0 THEN <<>>
  ELSE IF dequed = <<>> THEN <<0>> \o popleft_padded(dequed, n - 1)
  ELSE <<Head(dequed)>> \o popleft_padded(Tail(dequed), n - 1)

\* dequed.popleft() for _ in range(n) if dequed
RECURSIVE popleft_for_range(_, _)
popleft_for_range(dequed, n) ==
  IF n = 0 THEN <<>>
  ELSE IF dequed = <<>> THEN popleft_for_range(dequed, n - 1)
  ELSE <<Head(dequed)>> \o popleft_for_range(Tail(dequed), n - 1)

\* iterable[i:j] of a string, i and j counted from 0
slice(items, i, j) == SubSeq(items, i + 1, min(j, Len(items)))

\* the type of the chunks of the deque path
chunk_type(c) == IF c.preserve.val THEN c.type ELSE "tuple"

InitChunk ==
  /\ args = NoArgs
  /\ constructed = "no"
  /\ policy = NoAttributes
  /\ wrapper = "none"
  /\ call = NoCall
  /\ calls = NoCalls
  /\ frozen = NoFrozen
  /\ env = NoEnv
  /\ roman = NoRoman
  /\ \E iterable \in IterableArgs, n \in ChunkSizeArgs,
        preserve_iterable_type \in PreserveArgs :
       chunk = [NoChunk EXCEPT !.pc = "start", !.type = iterable.type,
                               !.input = iterable.items, !.n = n,
                               !.preserve = preserve_iterable_type]

\* the first next() of the generator: validation, then the deque is filled
ChunkStart ==
  /\ chunk.pc = "start"
  /\ LET error == chunk_validate([type |-> chunk.type], chunk.n,
                                 chunk.preserve)
     IN  chunk' =
           IF error # "none"
           THEN [chunk EXCEPT !.pc = "done", !.error = error]
           ELSE IF chunk.type = "str"
           THEN [chunk EXCEPT !.pc = "str"]
           ELSE [chunk EXCEPT !.pc = "deque", !.dequed = chunk.input]
  /\ UNCHANGED <<args, constructed, policy, wrapper, call, calls, roman,
               frozen, env>>

\* one pass of `for i in range(0, len(iterable), n)`
ChunkStr ==
  /\ chunk.pc = "str"
  /\ chunk' =
       IF chunk.i < Len(chunk.input)
       THEN [chunk EXCEPT
               !.chunks = Append(@, [type |-> "str",
                                     items |-> slice(chunk.input, chunk.i,
                                                     chunk.i + chunk.n.val)]),
               !.i = @ + chunk.n.val]
       ELSE [chunk EXCEPT !.pc = "done"]
  /\ UNCHANGED <<args, constructed, policy, wrapper, call, calls, roman,
               frozen, env>>

\* one pass of `while dequed`
ChunkDeque ==
  /\ chunk.pc = "deque"
  /\ chunk' =
       IF chunk.dequed # <<>>
       THEN LET items == popleft_for_range(chunk.dequed, chunk.n.val)
            IN  [chunk EXCEPT
                   !.chunks = Append(@, [type |-> chunk_type(chunk),
                                         items |-> items]),
                   !.dequed = SubSeq(@, min(Len(items), Len(@)) + 1, Len(@))]
       ELSE [chunk EXCEPT !.pc = "done"]
  /\ UNCHANGED <<args, constructed, policy, wrapper, call, calls, roman,
               frozen, env>>

NextChunk == ChunkStart \/ ChunkStr \/ ChunkDeque

SpecChunk == InitChunk /\ [][NextChunk]_vars

(* ------------------------------ roman --------------------------------- *)
\* strings are sequences of characters
MaxInteger == 4000

\* c repeated k times
repeat(c, k) == [i \in 1..k |-> c]

\* str.upper() of a character and of a string
upper_char(c) ==
  CASE c = "m" -> "M" [] c = "d" -> "D" [] c = "c" -> "C" [] c = "l" -> "L"
    [] c = "x" -> "X" [] c = "v" -> "V" [] c = "i" -> "I" [] OTHER -> c

upper(str) == [k \in 1..Len(str) |-> upper_char(str[k])]

\* what `five?one{0,3}` can match, in the order the regex engine tries them
\* (both quantifiers are greedy)
greedy_digit(five, one) ==
  [k \in 1..8 |-> (IF k <= 4 THEN <<five>> ELSE <<>>)
                    \o repeat(one, 3 - ((k - 1) % 4))]

\* the four groups of ROMAN_PATTERN, each as its alternatives in the order
\* the regex engine tries them
ROMAN_PATTERN ==
  << [k \in 1..4 |-> repeat("M", 4 - k)],
     greedy_digit("D", "C") \o << <<"C", "D">>, <<"C", "M">>, <<>> >>,
     greedy_digit("L", "X") \o << <<"X", "L">>, <<"X", "C">> >>,
     greedy_digit("V", "I") \o << <<"I", "V">>, <<"I", "X">>, <<>> >> >>

\* the alternative is at the head of the string, whatever the case
\* (re.IGNORECASE)
matches_at_head(alternative, str) ==
  /\ Len(alternative) <= Len(str)
  /\ \A k \in 1..Len(alternative) : upper_char(str[k]) = alternative[k]

\* the match of the groups against the whole of the string (from ^ to $):
\* the first alternative of the first group that lets the rest match
RECURSIVE pattern_match(_, _)
pattern_match(groups, str) ==
  IF groups = <<>>
  THEN [ok |-> str = <<>>, groups |-> <<>>]
  ELSE LET alternatives == Head(groups)
           rest(k) == pattern_match(Tail(groups),
                        SubSeq(str, Len(alternatives[k]) + 1, Len(str)))
           good == {k \in 1..Len(alternatives) :
                      /\ matches_at_head(alternatives[k], str)
                      /\ rest(k).ok}
       IN  IF good = {} THEN [ok |-> FALSE, groups |-> <<>>]
           ELSE LET k == CHOOSE x \in good : \A y \in good : x <= y
                IN  [ok |-> TRUE,
                     groups |-> <<SubSeq(str, 1, Len(alternatives[k]))>>
                                  \o rest(k).groups]

ROMAN_MAPPING ==
  [thousands |-> << <<>>, <<"M">>, <<"M", "M">>, <<"M", "M", "M">> >>,
   hundreds |-> << <<>>, <<"C">>, <<"C", "C">>, <<"C", "C", "C">>,
                   <<"C", "D">>, <<"D">>, <<"D", "C">>, <<"D", "C", "C">>,
                   <<"D", "C", "C", "C">>, <<"C", "M">> >>,
   tens |-> << <<>>, <<"X">>, <<"X", "X">>, <<"X", "X", "X">>,
               <<"X", "L">>, <<"L">>, <<"L", "X">>, <<"L", "X", "X">>,
               <<"L", "X", "X", "X">>, <<"X", "C">> >>,
   ones |-> << <<>>, <<"I">>, <<"I", "I">>, <<"I", "I", "I">>,
               <<"I", "V">>, <<"V">>, <<"V", "I">>, <<"V", "I", "I">>,
               <<"V", "I", "I", "I">>, <<"I", "X">> >>]

\* list[k] and list.index(x), both counted from 0; index is -1 where Python
\* raises ValueError
item(list, k) == list[k + 1]

index(list, x) ==
  IF \E k \in 1..Len(list) : list[k] = x
  THEN (CHOOSE k \in 1..Len(list) :
          list[k] = x /\ \A j \in 1..(k - 1) : list[j] # x) - 1
  ELSE 0 - 1

Return(v) == [ok |-> TRUE, value |-> v]

validate_roman(roman_str) ==
  IF Len(roman_str) = 0 THEN [ok |-> FALSE, error |-> "ValueError"]
  ELSE Return(pattern_match(ROMAN_PATTERN, roman_str).ok)

roman_to_integer(roman_str) ==
  LET valid == validate_roman(roman_str)
  IN  IF ~valid.ok THEN valid
      ELSE IF ~valid.value THEN [ok |-> FALSE, error |-> "ValueError"]
      ELSE LET groups == pattern_match(ROMAN_PATTERN, roman_str).groups
               thousands == index(ROMAN_MAPPING.thousands, upper(groups[1]))
               hundreds == index(ROMAN_MAPPING.hundreds, upper(groups[2]))
               tens == index(ROMAN_MAPPING.tens, upper(groups[3]))
               ones == index(ROMAN_MAPPING.ones, upper(groups[4]))
           IN  IF (0 - 1) \in {thousands, hundreds, tens, ones}
               THEN [ok |-> FALSE, error |-> "ValueError"]
               ELSE Return(thousands * 1000 + hundreds * 100
                           + tens * 10 + ones * 1)

integer_to_roman_tens_of_ones(integer) ==
  IF ~isinstance_int(integer) THEN [ok |-> FALSE, error |-> "TypeError"]
  ELSE IF ~(1 <= integer.val /\ integer.val <= 3999)
  THEN [ok |-> FALSE, error |-> "ValueError"]
  ELSE Return(item(ROMAN_MAPPING.thousands, integer.val \div 1000)
              \o item(ROMAN_MAPPING.hundreds, (integer.val % 1000) \div 100)
              \o item(ROMAN_MAPPING.tens, integer.val % 10)
              \o item(ROMAN_MAPPING.ones, integer.val % 10))

integer_to_roman(integer) ==
  IF ~isinstance_int(integer) THEN [ok |-> FALSE, error |-> "TypeError"]
  ELSE IF ~(1 <= integer.val /\ integer.val <= 3999)
  THEN [ok |-> FALSE, error |-> "ValueError"]
  ELSE Return(item(ROMAN_MAPPING.thousands, integer.val \div 1000)
              \o item(ROMAN_MAPPING.hundreds, (integer.val % 1000) \div 100)
              \o item(ROMAN_MAPPING.tens, (integer.val % 100) \div 10)
              \o item(ROMAN_MAPPING.ones, integer.val % 10))

IntegerArgs == {PyInt(n) : n \in (0 - 1)..MaxInteger} \cup {PyStr}

InitRoman ==
  /\ args = NoArgs
  /\ constructed = "no"
  /\ policy = NoAttributes
  /\ wrapper = "none"
  /\ call = NoCall
  /\ calls = NoCalls
  /\ frozen = NoFrozen
  /\ env = NoEnv
  /\ chunk = NoChunk
  /\ \E integer \in IntegerArgs :
       roman = [NoRoman EXCEPT !.pc = "start", !.integer = integer]

\* integer_to_roman(integer)
RomanConvert ==
  /\ roman.pc = "start"
  /\ LET r == integer_to_roman(roman.integer)
     IN  roman' = IF r.ok
                  THEN [roman EXCEPT !.pc = "converted", !.roman = r.value]
                  ELSE [roman EXCEPT !.pc = "done", !.error = r.error]
  /\ UNCHANGED <<args, constructed, policy, wrapper, call, calls, chunk,
               frozen, env>>

\* validate_roman of the string integer_to_roman returned
RomanValidate ==
  /\ roman.pc = "converted"
  /\ LET r == validate_roman(roman.roman)
     IN  roman' = IF r.ok
                  THEN [roman EXCEPT !.pc = "validated", !.valid = r.value]
                  ELSE [roman EXCEPT !.pc = "done", !.error = r.error]
  /\ UNCHANGED <<args, constructed, policy, wrapper, call, calls, chunk,
               frozen, env>>

\* roman_to_integer of the string integer_to_roman returned
RomanBack ==
  /\ roman.pc = "validated"
  /\ LET r == roman_to_integer(roman.roman)
     IN  roman' = IF r.ok
                  THEN [roman EXCEPT !.pc = "done", !.back = r.value]
                  ELSE [roman EXCEPT !.pc = "done", !.error = r.error]
  /\ UNCHANGED <<args, constructed, policy, wrapper, call, calls, chunk,
               frozen, env>>

NextRoman == RomanConvert \/ RomanValidate \/ RomanBack

SpecRoman == InitRoman /\ [][NextRoman]_vars

(* ---------------------------- FrozenClass ----------------------------- *)
MaxValue == 1

\* getattr(self, '_initd', False), as the `if` takes it
getattr_initd(attrs) == attrs["_initd"].set /\ attrs["_initd"].val # 0

\* FrozenClass.__setattr__(self, attr, value)
frozen_setattr(obj, attr, value) ==
  IF getattr_initd(obj.attrs)
  THEN [obj EXCEPT !.last = [op |-> "set", attr |-> attr,
                             error |-> "AttributeError"]]
  ELSE [obj EXCEPT !.attrs[attr] = Attr(value),
                   !.last = [op |-> "set", attr |-> attr, error |-> "none"]]

\* object.__delattr__(self, attr): FrozenClass does not define __delattr__
frozen_delattr(obj, attr) ==
  IF ~obj.attrs[attr].set
  THEN [obj EXCEPT !.last = [op |-> "del", attr |-> attr,
                             error |-> "AttributeError"]]
  ELSE [obj EXCEPT !.attrs[attr] = Unset,
                   !.last = [op |-> "del", attr |-> attr, error |-> "none"]]

\* FrozenClass.__init__(self): self._initd = True
frozen_init(obj) == frozen_setattr(obj, "_initd", 1)

InitFrozen ==
  /\ args = NoArgs
  /\ constructed = "no"
  /\ policy = NoAttributes
  /\ wrapper = "none"
  /\ call = NoCall
  /\ calls = NoCalls
  /\ chunk = NoChunk
  /\ roman = NoRoman
  /\ env = NoEnv
  /\ frozen = [NoFrozen EXCEPT !.pc = "new"]

\* the __init__ of the subclass: it sets its attribute x, then calls
\* super().__init__()
FrozenInit ==
  /\ frozen.pc = "new"
  /\ \E v \in 0..MaxValue :
       LET obj == frozen_init(frozen_setattr(frozen, "x", v))
       IN  frozen' = [obj EXCEPT !.pc = "live", !.initial = obj.attrs,
                                 !.last = NoOp]
  /\ UNCHANGED <<args, constructed, policy, wrapper, call, calls, chunk,
                 roman, env>>

\* obj.attr = value
FrozenSet ==
  /\ frozen.pc = "live"
  /\ \E attr \in AttrNames, v \in 0..MaxValue :
       frozen' = frozen_setattr(frozen, attr, v)
  /\ UNCHANGED <<args, constructed, policy, wrapper, call, calls, chunk,
                 roman, env>>

\* del obj.attr
FrozenDel ==
  /\ frozen.pc = "live"
  /\ \E attr \in AttrNames : frozen' = frozen_delattr(frozen, attr)
  /\ UNCHANGED <<args, constructed, policy, wrapper, call, calls, chunk,
                 roman, env>>

NextFrozen == FrozenInit \/ FrozenSet \/ FrozenDel

SpecFrozen == InitFrozen /\ [][NextFrozen]_vars

(* ----------------------------- EnvDefault ----------------------------- *)
MaxInstances == 2

\* the lines of a .env file: KEY=value, a comment, a line without "="
Pair(k, v) == [kind |-> "pair", key |-> k, val |-> v]

Comment == [kind |-> "comment", key |-> "none", val |-> 0]

NoEq == [kind |-> "noeq", key |-> "none", val |-> 0]

File(lines) == [exists |-> TRUE, lines |-> lines]

\* what a .env file of the process can be: missing, empty, or some lines
EnvFiles ==
  { NoFile,
    File(<<>>),
    File(<<Pair("A", 1)>>),
    File(<<Comment, Pair("A", 2)>>),
    File(<<Pair("A", 1), Pair("A", 2)>>),
    File(<<NoEq, Pair("B", 1)>>) }

\* os.environ: a name is not set (0) or has the value 3
Environs == [EnvNames -> {0, 3}]

\* for line in f: ... key, val = line.split("=", 1); values[key] = val
RECURSIVE read_lines(_, _)
read_lines(values, lines) ==
  IF lines = <<>> THEN values
  ELSE LET line == Head(lines)
       IN  read_lines(IF line.kind = "pair"
                      THEN [values EXCEPT ![line.key] = line.val]
                      ELSE values,
                      Tail(lines))

\* dotenv_values(path) of python-dotenv: a new dict, empty for a missing
\* file; a key without "=" has the value None
dotenv_values(file) ==
  IF file.exists THEN read_lines([n \in EnvNames |-> 0], file.lines)
  ELSE [n \in EnvNames |-> 0]

\* EnvDefault._load_dotenv(self) of an instance with this env_file
load_dotenv(e, env_file) ==
  IF e.dotenv_loaded THEN e
  ELSE [e EXCEPT
          !.dotenv_values =
            IF e.use_dotenv THEN dotenv_values(e.files[env_file])
            ELSE IF e.files[env_file].exists
            THEN read_lines(@, e.files[env_file].lines)
            ELSE @,
          !.dotenv_loaded = TRUE]

\* ChainMap(os.environ, EnvDefault._dotenv_values).get(name)
chain_get(e, name) ==
  IF e.environ[name] # 0 THEN e.environ[name] ELSE e.dotenv_values[name]

\* the process starts: python-dotenv is installed or not, os.environ and
\* the files are what they are
InitEnv ==
  /\ args = NoArgs
  /\ constructed = "no"
  /\ policy = NoAttributes
  /\ wrapper = "none"
  /\ call = NoCall
  /\ calls = NoCalls
  /\ chunk = NoChunk
  /\ roman = NoRoman
  /\ frozen = NoFrozen
  /\ \E use_dotenv \in BOOLEAN, environ \in Environs,
        files \in [EnvFileNames -> EnvFiles] :
       env = [NoEnv EXCEPT !.pc = "run", !.use_dotenv = use_dotenv,
                           !.environ = environ, !.files = files]

\* EnvDefault(name, env_file=env_file)
EnvConstruct ==
  /\ env.pc = "run"
  /\ Len(env.instances) < MaxInstances
  /\ \E name \in EnvNames, env_file \in EnvFileNames :
       env' = [load_dotenv(env, env_file) EXCEPT
                 !.instances = Append(@, [name |-> name,
                                          env_file |-> env_file])]
  /\ UNCHANGED <<args, constructed, policy, wrapper, call, calls, chunk,
                 roman, frozen>>

\* instance()
EnvCall ==
  /\ env.pc = "run"
  /\ \E k \in 1..Len(env.instances) :
       env' = [env EXCEPT
                 !.last = [instance |-> k,
                           value |-> chain_get(env, env.instances[k].name)]]
  /\ UNCHANGED <<args, constructed, policy, wrapper, call, calls, chunk,
                 roman, frozen>>

NextEnv == EnvConstruct \/ EnvCall

SpecEnv == InitEnv /\ [][NextEnv]_vars

(* ======================= the claims ==================================== *)
\* the class k is one of retryable_errors or a subclass of one
Retryable(k) == \E c \in policy.exceptions.items : issubclass(k, c)

\* the i-th invocation of the function failed with a retryable error
FailsRetryably(i) ==
  call.outcomes[i] # "return" /\ Retryable(call.outcomes[i])

\* the host cancelled the call while it slept
HostCancelled ==
  call.result.exc = "CancelledError" /\ call.result.origin = 0

Bounded == constructed = "ok" /\ policy.max_retries > 0
Unbounded == constructed = "ok" /\ policy.max_retries < 0

Exhausted ==
  call.pc = "done" /\ call.result.exc = "MaxRetryExceededError"

\* C1: with max_retries = n >= 1 and a function that fails retryably on
\* every invocation, the call invokes it exactly n times and then fails
\* with MaxRetryExceededError, whose message states n.
C1_AlwaysFailingExhaustsAfterN ==
  (Bounded /\ ~HostCancelled
     /\ \A i \in 1..Len(call.outcomes) : FailsRetryably(i))
  => /\ call.invocations <= policy.max_retries
     /\ call.pc = "done" =>
          /\ call.invocations = policy.max_retries
          /\ call.result.exc = "MaxRetryExceededError"
          /\ call.result.msg = policy.max_retries

\* C2: an invocation that fails with an error that is not retryable ends
\* the call with that very error, with no wait and no further invocation,
\* also after earlier retryable failures.
C2_NonRetryablePropagates ==
  \A i \in 1..Len(call.outcomes) :
    (call.outcomes[i] # "return" /\ ~Retryable(call.outcomes[i]))
    => /\ i = Len(call.outcomes)
       /\ call.pc = "done"
       /\ call.result.status = "raised"
       /\ call.result.exc = call.outcomes[i]
       /\ call.result.origin = i
       /\ Len(call.sleeps) = i - 1

\* C3: with max_retries = n, a function that fails retryably k-1 times and
\* succeeds on invocation k <= n is invoked k times and the call returns
\* the value of the k-th invocation: no call ends before the function had
\* its k-th invocation, and none ends in exhaustion.
C3_SucceedsOnKth ==
  Bounded =>
    /\ (/\ call.pc = "done"
        /\ ~HostCancelled
        /\ \A i \in 1..Len(call.outcomes) : FailsRetryably(i))
       => call.invocations >= policy.max_retries
    /\ LET k == Len(call.outcomes)
       IN  (/\ k >= 1
            /\ k <= policy.max_retries
            /\ call.outcomes[k] = "return"
            /\ \A i \in 1..(k - 1) : FailsRetryably(i))
           => /\ call.pc = "done"
              /\ call.invocations = k
              /\ call.result.status = "returned"
              /\ call.result.value = k

\* C4: the error of an exhausted call is MaxRetryExceededError, which the
\* function did not raise, and its cause is the error of the last
\* invocation of the function.
C4_ExhaustionChainsLastError ==
  Exhausted =>
    /\ call.result.origin = 0
    /\ call.result.cause = call.invocations
    /\ call.result.cause = Len(call.outcomes)
    /\ call.result.cause >= 1
    /\ FailsRetryably(call.result.cause)

C4_Witness ==
  /\ Exhausted
  /\ call.invocations >= 2
  /\ call.outcomes[1] # call.outcomes[2]

\* C5: with a negative max_retries no call ends in exhaustion; after each
\* retryable failure the call waits and invokes the function again, so a
\* call ends only with a return or with a non-retryable error.
C5_UnboundedNeverExhausts ==
  (Unbounded /\ ~HostCancelled) =>
    /\ call.result.exc # "MaxRetryExceededError"
    /\ call.pc = "done" =>
         \/ call.result.status = "returned" /\ call.result.value >= 1
         \/ /\ call.result.status = "raised"
            /\ call.result.origin = call.invocations
            /\ ~Retryable(call.result.exc)

\* C6: no duration handed to sleep is negative.
C6_NoNegativeWait ==
  \A i \in 1..Len(call.sleeps) : call.sleeps[i].delay >= 0

\* C7: with jitter = 0 the i-th wait is backoff(delay, i), or the smaller
\* of that and max_delay when max_delay is set.
C7_DeterministicWait ==
  (constructed = "ok" /\ policy.jitter = 0) =>
    \A i \in 1..Len(call.sleeps) :
      LET b == IF policy.backoff = "linear" THEN policy.delay * i
               ELSE policy.delay
      IN  /\ call.sleeps[i].attempts = i
          /\ call.sleeps[i].delay =
               IF policy.max_delay = NoneValue THEN b
               ELSE IF policy.max_delay.val < b THEN policy.max_delay.val
               ELSE b

C7_Witness ==
  /\ policy.jitter = 0
  /\ policy.max_delay = NoneValue
  /\ Len(call.sleeps) >= 2
  /\ call.sleeps[1].delay = 1
  /\ call.sleeps[2].delay = 2

\* C8: with max_delay = D no wait is longer than D.
C8_WaitAtMostMaxDelay ==
  (constructed = "ok" /\ policy.max_delay # NoneValue) =>
    \A i \in 1..Len(call.sleeps) :
      call.sleeps[i].delay <= policy.max_delay.val

C8_Witness ==
  /\ policy.max_delay # NoneValue
  /\ policy.jitter > 0
  /\ \E i \in 1..Len(call.sleeps) :
       /\ call.sleeps[i].delay = policy.max_delay.val
       /\ policy.delay * (IF policy.backoff = "linear" THEN i ELSE 1)
            >= policy.max_delay.val
  /\ call.pc = "sleep"

\* the arguments are invalid in one of the ways construction must reject
InvalidArgs(a) ==
  \/ a.max_retries = PyInt(0)
  \/ a.delay.type = "float" /\ a.delay.val < 0
  \/ a.jitter.type = "float" /\ a.jitter.val < 0
  \/ callable(a.backoff) /\ positional_params(a.backoff) # 2
  \/ \E x \in a.exceptions.items :
       x \notin Classes \/ ~issubclass(x, "BaseException")

\* C9: retry(...) with max_retries = 0, a negative delay, a negative
\* jitter, a backoff that does not take exactly two arguments or an
\* `exceptions` entry that is no exception class raises at once: no such
\* policy is constructed, decorates a function or is called.
C9_InvalidPolicyRejected ==
  (constructed # "no" /\ InvalidArgs(args)) =>
    /\ constructed \in {"TypeError", "ValueError"}
    /\ wrapper = "none"
    /\ call.pc = "idle"

\* C10: a CancelledError raised while the coroutine runs leaves the call
\* at once: it is not counted as an attempt and no wait and no further
\* invocation follows it.
C10_CancellationNotRetried ==
  \A i \in 1..Len(call.outcomes) :
    call.outcomes[i] = "CancelledError"
    => /\ i = Len(call.outcomes)
       /\ call.pc = "done"
       /\ call.result.status = "raised"
       /\ call.result.exc = "CancelledError"
       /\ call.result.origin = i
       /\ call.attempts = i - 1
       /\ Len(call.sleeps) = i - 1

\* C11: a cancellation delivered while the call sleeps ends the call with
\* CancelledError: attempts stays as it was, the function is not invoked
\* again, and the error is neither MaxRetryExceededError nor the error of
\* the function, whatever `exceptions` holds.
C11_CancelledWaitEndsCall ==
  [][CancelSleep =>
       /\ call'.pc = "done"
       /\ call'.result.status = "raised"
       /\ call'.result.exc = "CancelledError"
       /\ call'.result.origin = 0
       /\ call'.result.cause = 0
       /\ call'.attempts = call.attempts
       /\ call'.invocations = call.invocations
       /\ call'.outcomes = call.outcomes
       /\ call'.sleeps = call.sleeps]_vars

C11_Witness ==
  /\ call.pc = "done"
  /\ HostCancelled
  /\ Retryable("CancelledError")
  /\ Bounded
  /\ call.attempts = policy.max_retries - 1
  /\ call.invocations = call.attempts

\* the three terminal states of a call
Succeeded ==
  /\ call.result.status = "returned"
  /\ call.result.value = call.invocations
  /\ call.result.value >= 1

FailedFast ==
  /\ call.result.status = "raised"
  /\ call.result.origin = call.invocations
  /\ call.result.origin >= 1
  /\ call.result.exc = call.outcomes[call.result.origin]
  /\ ~Retryable(call.result.exc)

\* C13: a call that has ended, other than by a cancellation of its wait,
\* has returned the value of the function, raised the non-retryable error
\* of the function, or raised MaxRetryExceededError; a call that has not
\* ended has no result.
C13_OnlyThreeTerminalStates ==
  /\ (call.pc = "done" /\ ~HostCancelled)
       => (Succeeded \/ FailedFast \/ Exhausted)
  /\ call.pc # "done" => call.result = Running

\* C14: max_retries = n is the number of retries: an exhausted call has
\* invoked the function n + 1 times, once and then n retries, each after
\* a wait.
C14_RetriedMaxRetriesTimes ==
  Exhausted =>
    /\ call.invocations - 1 = policy.max_retries
    /\ Len(call.sleeps) = policy.max_retries

\* C15: when the call of backoff raises, the call of the wrapper ends
\* with that error, without a wait or a further invocation, also when the
\* class of the error is in `exceptions`.
C15_BackoffErrorPropagates ==
  (/\ constructed = "ok"
   /\ positional_params(policy.backoff) # 2
   /\ policy.exceptions.type = "tuple"
   /\ policy.max_retries # 1
   /\ Len(call.outcomes) >= 1
   /\ FailsRetryably(1))
  => /\ call.pc = "done"
     /\ call.invocations = 1
     /\ Len(call.sleeps) = 0
     /\ call.result.status = "raised"
     /\ call.result.exc = "TypeError"
     /\ call.result.origin = 0
     /\ call.result.cause = 0

C15_Witness ==
  /\ constructed = "ok"
  /\ positional_params(policy.backoff) # 2
  /\ Retryable("TypeError")
  /\ policy.max_retries = 2
  /\ call.pc = "done"
  /\ call.outcomes = <<"ValueError">>
  /\ call.result.exc = "TypeError"

\* C16: sync_wrapper and async_wrapper do the same: from the same state
\* of a call, the same outcome of the function and the same jitter lead
\* to the same invocations, attempts, waits and result.
C16_SyncAsyncSame ==
  (constructed = "ok" /\ call.pc = "loop") =>
    \A outcome \in FuncOutcomes("sync_wrapper"),
       u \in (0 - policy.jitter)..policy.jitter :
      wrapper_loop(policy, "sync_wrapper", call, outcome, u)
        = wrapper_loop(policy, "async_wrapper", call, outcome, u)

\* C17: invocations and waits alternate: a running call has had as many
\* waits as invocations, the i-th wait follows the i-th failure, and a call
\* that ended in success, a non-retryable error or exhaustion has had one
\* wait fewer than invocations.
C17_WaitsAlternate ==
  /\ call.pc \in {"loop", "sleep"} => Len(call.sleeps) = call.invocations
  /\ \A i \in 1..Len(call.sleeps) :
       /\ call.sleeps[i].attempts = i
       /\ i <= call.invocations
  /\ (call.pc = "done" /\ (Succeeded \/ FailedFast \/ Exhausted))
       => Len(call.sleeps) = call.invocations - 1

C17_Witness ==
  /\ call.pc = "done"
  /\ call.outcomes = <<"ValueError", "ValueError", "return">>
  /\ policy.max_retries = 3
  /\ Succeeded
  /\ Len(call.sleeps) = 2

\* C18: no step of a call changes the attributes of the retry object:
\* they stay what __init__ stored.
C18_PolicyImmutable ==
  IF constructed = "ok" THEN policy = stored_attributes(args)
  ELSE policy = NoAttributes

C18_Witness ==
  /\ call.pc = "done"
  /\ Exhausted
  /\ policy.delay > 0
  /\ policy.jitter > 0
  /\ Len(call.sleeps) >= 2

\* the state of a call that runs alone, right after its k-th invocation of
\* a function with these outcomes (the policies of ConcArgs have no jitter)
RECURSIVE Alone(_, _, _, _)
Alone(self, w, outcomes, k) ==
  IF k = 0 THEN wrapper_enter(self)
  ELSE LET prev == Alone(self, w, outcomes, k - 1)
       IN  IF prev.pc = "done" THEN prev
           ELSE wrapper_loop(self, w, [prev EXCEPT !.pc = "loop"],
                             outcomes[k], 0)

\* C12: each of the concurrent calls is in the state a call alone is in
\* after the same outcomes of its own invocations, with attempts counted
\* from 0, whatever the other calls do and whatever calls ended before.
C12_CallsIndependent ==
  \A i \in CallIds :
    LET c == calls[i]
        alone == Alone(policy, wrapper, c.outcomes, Len(c.outcomes))
    IN  \/ c = NoCall
        \/ c = alone
        \/ /\ alone.pc = "sleep"
           /\ \/ c = [alone EXCEPT !.pc = "loop"]
              \/ /\ wrapper = "async_wrapper"
                 /\ c = Finish(alone, Raised("CancelledError", 0, 0))

C12_Witness ==
  /\ policy.max_retries = 2
  /\ calls[1].pc = "done"
  /\ calls[1].result.exc = "MaxRetryExceededError"
  /\ calls[1].invocations = 2
  /\ calls[2].pc = "sleep"
  /\ calls[2].attempts = 1
  /\ calls[2].invocations = 1

\* the chunks yielded so far, one after the other
RECURSIVE Concat(_)
Concat(chunks) ==
  IF chunks = <<>> THEN <<>> ELSE Head(chunks).items \o Concat(Tail(chunks))

\* C19: when chunk_iterable has run over a list or a tuple with n >= 1, the
\* chunks put end to end are the input, each chunk but the last has n
\* elements, the last has 1 to n, there are ceil(len/n) chunks, and an empty
\* input gives no chunk.
C19_ChunksPartitionInput ==
  (/\ chunk.pc = "done"
   /\ chunk.type \in {"list", "tuple"}
   /\ isinstance_int(chunk.n)
   /\ chunk.preserve.type = "bool"
   /\ chunk.n.val >= 1)
  => LET n == chunk.n.val
         chunks == chunk.chunks
     IN  /\ chunk.error = "none"
         /\ Concat(chunks) = chunk.input
         /\ \A k \in 1..(Len(chunks) - 1) : Len(chunks[k].items) = n
         /\ chunks # <<>> => Len(chunks[Len(chunks)].items) \in 1..n
         /\ Len(chunks) = (Len(chunk.input) + n - 1) \div n
         /\ chunk.input = <<>> => chunks = <<>>

C19_Witness ==
  /\ chunk.pc = "done"
  /\ chunk.type = "list"
  /\ chunk.error = "none"
  /\ chunk.n = PyInt(2)
  /\ Len(chunk.input) = 3
  /\ Len(chunk.chunks) = 2
  /\ Len(chunk.chunks[2].items) = 1

\* C20: for an integer i of 1..3999, integer_to_roman(i) is a string that
\* validate_roman accepts and roman_to_integer takes back to i; for an
\* integer outside 1..3999, integer_to_roman raises ValueError.
C20_RomanRoundTrip ==
  (isinstance_int(roman.integer) /\ roman.pc # "start")
  => IF 1 <= roman.integer.val /\ roman.integer.val <= 3999
     THEN /\ roman.pc \in {"validated", "done"} => roman.valid
          /\ roman.pc = "done" => /\ roman.error = "none"
                                  /\ roman.back = roman.integer.val
     ELSE roman.pc = "done" /\ roman.error = "ValueError"

C20_Witness ==
  /\ roman.pc = "done"
  /\ roman.integer = PyInt(1994)
  /\ roman.roman = <<"M", "C", "M", "X", "C", "I", "V">>
  /\ roman.valid
  /\ roman.back = 1994

\* C23: the i-th wait of a call is backoff(delay, i) plus an offset of
\* -jitter..jitter, then cut to max_delay when that is set: backoff gets
\* the delay given to retry(...), unchanged, and the attempts counter after
\* its increment, 1 for the first wait.
C23_WaitWithinJitterOfBackoff ==
  constructed = "ok" =>
    \A i \in 1..Len(call.sleeps) :
      LET b == IF args.backoff = "linear" THEN args.delay.val * i
               ELSE args.delay.val
      IN  /\ call.sleeps[i].attempts = i
          /\ \E d \in (b - args.jitter.val)..(b + args.jitter.val) :
               call.sleeps[i].delay =
                 IF args.max_delay = NoneValue THEN d
                 ELSE IF args.max_delay.val < d THEN args.max_delay.val
                 ELSE d

C23_Witness ==
  /\ args.backoff = "linear"
  /\ args.jitter = PyFloat(1)
  /\ args.delay = PyFloat(1)
  /\ args.max_delay = NoneValue
  /\ Len(call.sleeps) = 2
  /\ call.sleeps[1].delay = 0
  /\ call.sleeps[2].delay = 3

\* C24: without a backoff argument, with jitter = 0 and no max_delay,
\* every wait is the delay given to retry(...), whatever the attempt
\* number; with delay = 0 every wait is 0.
C24_DefaultBackoffIsIdentity ==
  (/\ constructed = "ok"
   /\ args.backoff = "None"
   /\ args.jitter = PyFloat(0)
   /\ args.max_delay = NoneValue)
  => \A i \in 1..Len(call.sleeps) :
       /\ call.sleeps[i].delay = args.delay.val
       /\ args.delay = PyFloat(0) => call.sleeps[i].delay = 0

C24_Witness ==
  /\ args.backoff = "None"
  /\ args.jitter = PyFloat(0)
  /\ args.max_delay = NoneValue
  /\ args.delay = PyFloat(1)
  /\ Len(call.sleeps) = 2
  /\ call.sleeps[1].delay = 1
  /\ call.sleeps[2].delay = 1

\* C27: a policy whose `exceptions` is a list of exception classes is
\* accepted and retries the failures of those classes as the tuple of the
\* same classes does: such a failure is counted as an attempt and the call
\* does not end with an error of `except` itself.
C27_ListOfExceptionsRetries ==
  (/\ constructed # "no"
   /\ args.exceptions.type = "list"
   /\ \A x \in args.exceptions.items :
        x \in Classes /\ issubclass(x, "BaseException")
   /\ retry_init([args EXCEPT !.exceptions.type = "tuple"]).ok)
  => /\ constructed = "ok"
     /\ \A i \in 1..Len(call.outcomes) :
          FailsRetryably(i) =>
            /\ call.attempts >= i
            /\ ~(call.result.exc = "TypeError" /\ call.attempts = 0)

\* C28: attempts counts the retryable failures of the call, one for each
\* and nothing else; with max_retries = n > 0 it is at most n - 1 while the
\* call is running and never above n, so the loop guard holds whenever the
\* call is at the head of the loop and no call returns the implicit None.
C28_AttemptsBelowMaxAtInvocation ==
  constructed = "ok" =>
    /\ call.attempts =
         Cardinality({i \in 1..Len(call.outcomes) : FailsRetryably(i)})
    /\ Bounded =>
         /\ call.attempts <= policy.max_retries
         /\ call.pc \in {"loop", "sleep"}
              => call.attempts <= policy.max_retries - 1
    /\ call.pc = "loop" => attempts_le(call.attempts, call.max_retries)
    /\ call.result # Returned(0)

\* C29: a failure of the function is retried if and only if its class is
\* one of `exceptions` or a subclass of one; with exceptions = Exception a
\* CancelledError leaves the call the first time it is raised.
C29_RetryableIffListedKind ==
  constructed = "ok" =>
    \A i \in 1..Len(call.outcomes) :
      call.outcomes[i] # "return" =>
        /\ (i <= call.attempts) <=> Retryable(call.outcomes[i])
        /\ ~Retryable(call.outcomes[i]) =>
             /\ call.pc = "done"
             /\ call.result.exc = call.outcomes[i]
             /\ call.result.origin = i

\* the waits the call performed: the calls of sleep that did not raise
WaitsPerformed ==
  {i \in 1..Len(call.sleeps) : ~sleep_raises(wrapper, call.sleeps[i].delay)}

\* C30: backoff is called once for each wait the call performs and at no
\* other time, with the attempt numbers 1, 2, ..., w for w waits.
C30_BackoffOncePerWait ==
  call.backoffs = [i \in 1..Cardinality(WaitsPerformed) |-> i]

\* C25: with max_retries = n > 0 a call that is not cancelled never makes
\* more than n invocations or n - 1 waits, it can always take its next
\* step until it has ended, and when it has ended it is in one of the three
\* terminal states: it has succeeded, failed fast or is exhausted.
C25_BoundedCallTerminates ==
  (Bounded /\ ~HostCancelled) =>
    /\ call.invocations <= policy.max_retries
    /\ Cardinality(WaitsPerformed) <= policy.max_retries - 1
    /\ call.pc = "loop" => call.invocations < policy.max_retries
    /\ call.invocations = policy.max_retries => call.pc = "done"
    /\ call.pc = "done" => (Succeeded \/ FailedFast \/ Exhausted)

\* C26: while a call of async_wrapper waits, every other call can take its
\* next step, whichever it is: begin, invoke the function, or return from
\* its own wait; the waiting call can return from its wait whatever the
\* others do, and a call that has returned from a wait invokes the function
\* again on its next pass of the loop.
C26_WaitYieldsControl ==
  wrapper = "async_wrapper" =>
    \A i \in CallIds :
      /\ calls[i].pc = "sleep" =>
           /\ ENABLED WakeCall(i)
           /\ \A j \in CallIds \ {i} :
                /\ calls[j].pc \in {"idle", "done"} => ENABLED EnterCall(j)
                /\ (calls[j].pc = "loop"
                      /\ calls[j].invocations < MaxInvocations)
                     => ENABLED LoopCall(j)
                /\ calls[j].pc = "sleep" => ENABLED WakeCall(j)
      /\ (calls[i].pc = "loop" /\ calls[i].sleeps # <<>>) =>
           \A outcome \in FuncOutcomes(wrapper) :
             wrapper_loop(policy, wrapper, calls[i], outcome, 0).invocations
               = calls[i].invocations + 1

C26_Witness ==
  /\ wrapper = "async_wrapper"
  /\ calls[1].pc = "sleep"
  /\ calls[1].invocations = 1
  /\ calls[2].pc = "done"
  /\ calls[2].invocations = 2
  /\ Len(calls[2].sleeps) = 1
  /\ calls[2].result.status = "returned"

\* C21: once __init__ has run, every assignment to an attribute of the
\* instance raises AttributeError and every attribute, _initd too, keeps
\* the value it had when __init__ ended, whatever assignments and deletions
\* follow.
C21_FrozenAfterInit ==
  frozen.pc = "live" =>
    /\ frozen.attrs = frozen.initial
    /\ frozen.last.op = "set" => frozen.last.error = "AttributeError"

\* C22: a call of an EnvDefault instance returns the value of its name in
\* os.environ when the name is set there, else the value of the name in the
\* .env file given to that instance, else None, whatever instances were
\* constructed and called before.
C22_EnvThenOwnFileThenNone ==
  env.last.instance # 0 =>
    LET self == env.instances[env.last.instance]
    IN  env.last.value =
          IF env.environ[self.name] # 0 THEN env.environ[self.name]
          ELSE dotenv_values(env.files[self.env_file])[self.name]

====
